---- MODULE Spec2Model ----
(***************************************************************************)
(* Model of the periodic scheduler of the multi-agent financial system:    *)
(* TaskScheduler (start, stop, _run_scheduler and the five job handlers)   *)
(* and the coordinator's start_system / stop_system, in                    *)
(* src/financial_system.py.                                                *)
(*                                                                         *)
(* The job table is the module-level default scheduler of the `schedule`   *)
(* package: every TaskScheduler of the process registers into the same     *)
(* list and every background thread runs schedule.run_pending() on it.     *)
(* What the package does inside the calls the source makes is modelled as  *)
(* the package documents it: do() appends a job whose next run is          *)
(* now + unit (or the next HH:MM), run_pending() takes the jobs with       *)
(* next_run <= now, sorted by next_run, and runs them one after the other  *)
(* in the calling thread, setting next_run from the clock after each run.  *)
(* Time is counted in whole hours.                                         *)
(*                                                                         *)
(* Further parts, each with a specification of its own: process_command    *)
(* (SpecDispatch), InventoryAgent.update_quantity with two concurrent      *)
(* callers (SpecInventory) and with one call at a time                     *)
(* (SpecInventorySequential), MortgageAgent._assess_loan_risk (SpecRisk),  *)
(* submit_loan_application (SpecLoan), calculate_mortgage_payment          *)
(* (SpecMortgage), FinanceAgent.generate_budget_recommendation             *)
(* (SpecBudget), InsuranceAgent.create_policy_quote (SpecInsurance) and    *)
(* the scheduler under fair scheduling of its threads (SpecTick).  The     *)
(* variables of the parts a specification does not follow keep the values  *)
(* they have after construction.  Amounts of money are exact fractions,    *)
(* reported in whole cents.                                                *)
(***************************************************************************)
EXTENDS Integers, Sequences, FiniteSets, TLC

\* ---------------------------------------------------------------- bounds
\* largest stored quantity the inventory item starts with
MaxQuantity == 2
\* largest quantity_change, up or down, a caller asks for
MaxChange == 2
\* hours of wall-clock time followed after the launch
Horizon == 2
\* start()/stop() calls followed
MaxCalls == 4

\* ------------------------------------------------------ program constants
Hour == 1
Day == 24
Week == 168
Month == 720
At0900 == 9
At1800 == 18

None == "None"
NoAt == -1
\* scheduler_thread before the first start()
NoThread == 0
\* the coordinator objects (MultiAgentSystem, each owning one TaskScheduler):
\* one is followed
Coordinators == {"sysA"}
\* the background threads that can be spawned: two, for concurrent ticks
Threads == {1, 2}
\* the process is launched an hour before the first daily job
BootHour == At0900 - Hour
MaxTime == BootHour + Horizon

VARIABLES
    now,              \* wall clock, in hours
    month_unit,       \* whether the installed schedule package has every().month
    jobs,             \* schedule.jobs of the default scheduler (process-global)
    running,          \* TaskScheduler.running, per coordinator
    scheduler_thread, \* TaskScheduler.scheduler_thread, per coordinator
    pc,               \* position of each background thread in _run_scheduler
    owner,            \* the TaskScheduler (self) each thread was spawned by
    todo,             \* run_pending(): the sorted due jobs still to run, head first
    logged,           \* what a thread logged for the job it ended last in its
                      \* current tick ("none" outside a tick)
    ran,              \* history: <<job, next_run it was due at>> of that job
    joining,          \* the coordinator whose stop() is blocked in join(), or None
    calls             \* the start/stop calls made so far on each coordinator,
                      \* in order

schedulerVars == <<now, month_unit, jobs, running, scheduler_thread, pc, owner, todo,
                   logged, ran, joining, calls>>

VARIABLES
    command,          \* process_command: the command as the caller passed it
    params,           \* the keys present in the parameter bag
    invoked,          \* the handler operation process_command called, or None
    failed,           \* whether that operation failed or a required parameter
                      \* was missing
    envelope          \* the dictionary process_command returned

dispatchVars == <<command, params, invoked, failed, envelope>>

VARIABLES
    quantity,         \* inventory.quantity of the one item in the table
    initial_quantity, \* history: the quantity before the first update
    update            \* per caller of update_quantity: its position, its
                      \* quantity_change, the current_quantity it read and
                      \* what it returned

inventoryVars == <<quantity, initial_quantity, update>>

VARIABLES
    application,      \* the LoanApplication handed to _assess_loan_risk
    assessment        \* the dictionary _assess_loan_risk returned for it

riskVars == <<application, assessment>>

VARIABLES
    loan_applications, \* the rows of the loan_applications table
    submission         \* the last submit_loan_application call: the data it was
                       \* given, whether the assessment raised, the application
                       \* it built and what it returned

loanVars == <<loan_applications, submission>>

VARIABLES
    mortgage_args,     \* principal, rate and years handed to
                       \* calculate_mortgage_payment
    mortgage           \* the dictionary it returned

mortgageVars == <<mortgage_args, mortgage>>

VARIABLES
    budget_args,       \* income and expenses handed to
                       \* generate_budget_recommendation
    budget             \* the dictionary it returned

budgetVars == <<budget_args, budget>>

VARIABLES
    quote_args,        \* the customer_data handed to create_policy_quote
    quote              \* the dictionary it returned

insuranceVars == <<quote_args, quote>>

\* the state outside the scheduler
besidesScheduler == <<dispatchVars, inventoryVars, riskVars, loanVars, mortgageVars,
                 budgetVars, insuranceVars>>

vars == <<schedulerVars, dispatchVars, inventoryVars, riskVars, loanVars,
          mortgageVars,
                 budgetVars, insuranceVars>>

\* ------------------------------------------------------------ job table
\* the five registrations of TaskScheduler.start, in source order
StaticTable ==
    << [fn |-> "_scrape_market_data",       unit |-> Hour,  at |-> NoAt],
       [fn |-> "_generate_daily_reports",   unit |-> Day,   at |-> At0900],
       [fn |-> "_check_inventory_alerts",   unit |-> Day,   at |-> At1800],
       [fn |-> "_reconcile_accounts",       unit |-> Week,  at |-> NoAt],
       [fn |-> "_generate_monthly_reports", unit |-> Month, at |-> NoAt] >>

JobFns == {StaticTable[k].fn : k \in 1..Len(StaticTable)}

\* position of a job function in the static table: its id
JobId(fn) == CHOOSE k \in 1..Len(StaticTable) : StaticTable[k].fn = fn

\* next time of day `at` strictly after t
NextAt(t, at) ==
    LET base == (t \div Day) * Day + at
    IN  IF base > t THEN base ELSE base + Day

\* variant: the next run counted from the previous next_run
ScheduleFromPrevious(def, prev, t) == prev + def.unit

\* Job._schedule_next_run: from the clock, not from the previous next_run
ScheduleNextRun(def, prev, t) ==
    IF def.at = NoAt THEN t + def.unit ELSE NextAt(t, def.at)

\* schedule.every().<unit>[.at(..)].do(self.<fn>) at time t by coordinator o
NewJob(def, o, t) ==
    [fn |-> def.fn, self |-> o, next_run |-> ScheduleNextRun(def, t, t)]

RECURSIVE Register(_, _, _, _)
Register(js, o, t, n) ==
    IF n = 0 THEN js
    ELSE Append(Register(js, o, t, n - 1), NewJob(StaticTable[n], o, t))

\* ---------------------------------------------------------- run_pending
\* Job.should_run
ShouldRun(job, t) == t >= job.next_run

\* Job.__lt__ with sorted() being stable
RunsBefore(js, i, k) ==
    \/ js[i].next_run < js[k].next_run
    \/ js[i].next_run = js[k].next_run /\ i < k

RECURSIVE SortJobs(_, _)
SortJobs(js, S) ==
    IF S = {} THEN <<>>
    ELSE LET m == CHOOSE i \in S : \A k \in S \ {i} : RunsBefore(js, i, k)
         IN  <<m>> \o SortJobs(js, S \ {m})

\* sorted(job for job in self.jobs if job.should_run)
Runnable(js, t) == SortJobs(js, {i \in 1..Len(js) : ShouldRun(js[i], t)})

\* ------------------------------------------------------------- threads
RECURSIVE CallsOf(_)
CallsOf(S) ==
    IF S = {} THEN 0
    ELSE LET o == CHOOSE x \in S : TRUE
         IN  Len(calls[o]) + CallsOf(S \ {o})
\* number of start/stop calls made so far
CallsMade == CallsOf(Coordinators)

Alive(t) == pc[t] \notin {"unborn", "dead"}
AliveOf(o) == {t \in Threads : Alive(t) /\ owner[t] = o}

TypeOK ==
    /\ now \in BootHour..MaxTime
    /\ month_unit \in BOOLEAN
    /\ \A i \in 1..Len(jobs) :
          /\ jobs[i].fn \in JobFns
          /\ jobs[i].self \in Coordinators
          /\ jobs[i].next_run \in Int
    /\ running \in [Coordinators -> BOOLEAN]
    /\ scheduler_thread \in [Coordinators -> Threads \cup {NoThread}]
    /\ pc \in [Threads -> {"unborn", "check", "job", "sleep", "dead"}]
    /\ owner \in [Threads -> Coordinators \cup {None}]
    /\ \A t \in Threads : \A k \in 1..Len(todo[t]) : todo[t][k] \in 1..Len(jobs)
    /\ logged \in [Threads -> {"none", "completed", "job error", "scheduler error"}]
    /\ \A t \in Threads : ran[t] = <<>> \/ ran[t][1] \in 1..Len(jobs)
    /\ joining \in Coordinators \cup {None}
    /\ calls \in [Coordinators -> Seq({"start", "stop"})]
    /\ CallsMade <= MaxCalls

SchedulerInit ==
    /\ now = BootHour
    /\ month_unit \in BOOLEAN
    /\ jobs = <<>>
    /\ running = [o \in Coordinators |-> FALSE]
    /\ scheduler_thread = [o \in Coordinators |-> NoThread]
    /\ pc = [t \in Threads |-> "unborn"]
    /\ owner = [t \in Threads |-> None]
    /\ todo = [t \in Threads |-> <<>>]
    /\ logged = [t \in Threads |-> "none"]
    /\ ran = [t \in Threads |-> <<>>]
    /\ joining = None
    /\ calls = [o \in Coordinators |-> <<>>]

\* no command has been processed
NoEnvelope == [idle |-> TRUE]
DispatchIdle ==
    /\ command = None
    /\ params = {}
    /\ invoked = None
    /\ failed = FALSE
    /\ envelope = NoEnvelope

\* the concurrent callers of update_quantity
Callers == {"caller1", "caller2"}
\* the id of the one item in the table, and an id that is not in it
Item == "item1"
ItemIds == {Item, "unknown"}
NotCalled == [pc |-> "idle", item_id |-> None, quantity_change |-> 0,
              current_quantity |-> 0, returned |-> None]
InventoryIdle ==
    /\ quantity = 0
    /\ initial_quantity = 0
    /\ update = [c \in Callers |-> NotCalled]

\* no application has been assessed
NoApplication == [credit_score |-> 0, debt_to_income |-> 0, loan_amount |-> 0,
                  income |-> 0, property_value |-> 0]
NotAssessed == [pending |-> TRUE]
RiskIdle ==
    /\ application = NoApplication
    /\ assessment = NotAssessed

\* the loan_applications table is empty and nothing has been submitted
NotSubmitted == [idle |-> TRUE]
LoanIdle ==
    /\ loan_applications = {}
    /\ submission = NotSubmitted

\* no mortgage has been calculated
NoMortgageArgs == [principal |-> 0, rate |-> 0, years |-> 0]
NotCalculated == [pending |-> TRUE]
MortgageIdle ==
    /\ mortgage_args = NoMortgageArgs
    /\ mortgage = NotCalculated

\* no budget has been analysed
NoBudgetArgs == [income |-> 0, expenses |-> <<>>]
NotAnalysed == [pending |-> TRUE]
BudgetIdle ==
    /\ budget_args = NoBudgetArgs
    /\ budget = NotAnalysed

\* no policy has been quoted
NoCustomer == [policy_type |-> "none"]
NotQuoted == [pending |-> TRUE]
InsuranceIdle ==
    /\ quote_args = NoCustomer
    /\ quote = NotQuoted

Init ==
    /\ SchedulerInit /\ DispatchIdle /\ InventoryIdle /\ RiskIdle /\ LoanIdle
    /\ MortgageIdle
    /\ BudgetIdle /\ InsuranceIdle

\* registrations a start() gets through: all five, or the first four when
\* every().month raises (the package has no month unit)
RegisteredByStart(m) == IF m THEN Len(StaticTable) ELSE Len(StaticTable) - 1

\* The wall clock reaches the next hour.  The steps of a thread outside its jobs
\* and the 5 s wait of a join take no time at this resolution, and a thread in
\* time.sleep(60) has woken up by then; only a job can last into the next hour.
Advance ==
    /\ now < MaxTime
    /\ joining = None
    /\ \A t \in Threads : pc[t] # "check"
    /\ now' = now + 1
    /\ pc' = [t \in Threads |-> IF pc[t] = "sleep" THEN "check" ELSE pc[t]]
    /\ UNCHANGED <<month_unit, jobs, running, scheduler_thread, owner, todo,
                   logged, ran, joining, calls>>
    /\ UNCHANGED besidesScheduler

\* MultiAgentSystem.start_system -> TaskScheduler.start
Start(o) ==
    /\ joining = None
    /\ CallsMade < MaxCalls
    /\ calls' = [calls EXCEPT ![o] = Append(@, "start")]
    /\ running' = [running EXCEPT ![o] = TRUE]
    /\ IF month_unit
       THEN \E t \in Threads :
               /\ pc[t] = "unborn"
               /\ \A u \in Threads : u < t => pc[u] # "unborn"
               /\ jobs' = Register(jobs, o, now, RegisteredByStart(TRUE))
               /\ pc' = [pc EXCEPT ![t] = "check"]
               /\ owner' = [owner EXCEPT ![t] = o]
               /\ scheduler_thread' = [scheduler_thread EXCEPT ![o] = t]
       ELSE \* every().month raises AttributeError: start_system logs, returns False
            /\ jobs' = Register(jobs, o, now, RegisteredByStart(FALSE))
            /\ UNCHANGED <<pc, owner, scheduler_thread>>
    /\ UNCHANGED <<now, month_unit, todo, logged, ran, joining>>
    /\ UNCHANGED besidesScheduler

\* variant: join() without a timeout
JoinWithoutTimeout(t, expired) == ~Alive(t)

\* Thread.join(timeout=5): returns when the thread has ended or the wait expired
JoinReturns(t, expired) == ~Alive(t) \/ expired

\* MultiAgentSystem.stop_system -> TaskScheduler.stop, up to the join
Stop(o) ==
    /\ joining = None
    /\ CallsMade < MaxCalls
    /\ calls' = [calls EXCEPT ![o] = Append(@, "stop")]
    /\ running' = [running EXCEPT ![o] = FALSE]
    /\ joining' = IF scheduler_thread[o] = NoThread THEN None ELSE o
    /\ UNCHANGED <<now, month_unit, jobs, scheduler_thread, pc, owner, todo, logged,
                   ran>>
    /\ UNCHANGED besidesScheduler

\* TaskScheduler.stop returns from the join
StopReturn(o) ==
    /\ joining = o
    /\ \E expired \in BOOLEAN : JoinReturns(scheduler_thread[o], expired)
    /\ joining' = None
    /\ UNCHANGED <<now, month_unit, jobs, running, scheduler_thread, pc, owner, todo,
                   logged, ran, calls>>
    /\ UNCHANGED besidesScheduler

\* _run_scheduler: (time.sleep(60) is over,) `while self.running:` is evaluated,
\* schedule.run_pending() collects the due jobs and calls the first one
RunPending(t) ==
    /\ pc[t] \in {"check", "sleep"}
    /\ IF running[owner[t]]
       THEN LET r == Runnable(jobs, now)
            IN  /\ todo' = [todo EXCEPT ![t] = r]
                /\ pc' = [pc EXCEPT ![t] = IF r = <<>> THEN "sleep" ELSE "job"]
                /\ logged' = [logged EXCEPT ![t] = "none"]
                /\ ran' = [ran EXCEPT ![t] = <<>>]
       ELSE /\ pc' = [pc EXCEPT ![t] = "dead"]
            /\ UNCHANGED <<todo, logged, ran>>
    /\ UNCHANGED <<now, month_unit, jobs, running, scheduler_thread, owner, joining,
                   calls>>
    /\ UNCHANGED besidesScheduler

\* variant: a handler without its try/except
HandlerUncaught(fails) == IF fails THEN "raised" ELSE "completed"

\* a job handler (_scrape_market_data .. _generate_monthly_reports): the whole body
\* is in try/except Exception, a failure is logged and the handler returns
Handler(fails) == IF fails THEN "job error" ELSE "completed"

\* the job function returns (or raises), Job.run() sets the next run and
\* run_pending() goes on with the next due job: nothing is tested in between
EndJob(t) ==
    /\ pc[t] = "job"
    /\ \E fails \in BOOLEAN :
          LET i == Head(todo[t])
              def == StaticTable[JobId(jobs[i].fn)]
              out == Handler(fails)
              rest == Tail(todo[t])
          IN  IF out = "raised"
              THEN \* run_pending() is left by the exception: `except Exception` of
                   \* _run_scheduler logs it and the loop goes on, without the sleep
                   /\ logged' = [logged EXCEPT ![t] = "scheduler error"]
                   /\ ran' = [ran EXCEPT ![t] = <<>>]
                   /\ todo' = [todo EXCEPT ![t] = <<>>]
                   /\ pc' = [pc EXCEPT ![t] = "check"]
                   /\ UNCHANGED jobs
              ELSE /\ jobs' = [jobs EXCEPT ![i].next_run =
                                  ScheduleNextRun(def, jobs[i].next_run, now)]
                   /\ todo' = [todo EXCEPT ![t] = rest]
                   /\ IF rest = <<>>
                      THEN \* run_pending() returns: the tick is over
                           /\ pc' = [pc EXCEPT ![t] = "sleep"]
                           /\ logged' = [logged EXCEPT ![t] = "none"]
                           /\ ran' = [ran EXCEPT ![t] = <<>>]
                      ELSE \* Job.run() of the next due job calls its job function
                           /\ pc' = [pc EXCEPT ![t] = "job"]
                           /\ logged' = [logged EXCEPT ![t] = out]
                           /\ ran' = [ran EXCEPT ![t] = <<i, jobs[i].next_run>>]
    /\ UNCHANGED <<now, month_unit, running, scheduler_thread, owner, joining, calls>>
    /\ UNCHANGED besidesScheduler

Next ==
    \/ Advance
    \/ \E o \in Coordinators : Start(o)
    \/ \E o \in Coordinators : Stop(o)
    \/ \E o \in Coordinators : StopReturn(o)
    \/ \E t \in Threads : RunPending(t)
    \/ \E t \in Threads : EndJob(t)

Spec == Init /\ [][Next]_vars

\* the wait of join(timeout=5) is bounded by the runtime: a stop() blocked in it
\* gets to return; nothing is assumed about the threads or the jobs
SpecStop == Spec /\ WF_vars(\E o \in Coordinators : StopReturn(o))

\* ------------------------------------------------------------ the claims
\* the job a thread is executing
Executing(t) == Head(todo[t])
InFlight(i) == {t \in Threads : pc[t] = "job" /\ Executing(t) = i}

\* C1: no scheduled job ever has two executions in flight at the same instant:
\* a run of job J never starts before the previous run of J has completed.
NoOverlappingRuns ==
    \A i \in 1..Len(jobs) : Cardinality(InFlight(i)) <= 1

\* C2: at every instant each scheduler has at most one background execution
\* context, and exactly one while it is Running.
OneBackgroundContext ==
    \A o \in Coordinators :
        /\ Cardinality(AliveOf(o)) <= 1
        /\ running[o] => Cardinality(AliveOf(o)) = 1
\* a start() call on coordinator o is made in this step
StartCalled(o) == calls' = [calls EXCEPT ![o] = Append(@, "start")]

\* C3: start() on a system that is already Running is a no-op: no additional
\* scheduled jobs, no additional background context, scheduler state unchanged.
StartIsIdempotent ==
    [][\A o \in Coordinators :
          (StartCalled(o) /\ running[o]) =>
              UNCHANGED <<jobs, running, scheduler_thread, pc, owner, todo>>]_vars

\* the job functions of a table, in order
TableFns(js) == [k \in 1..Len(js) |-> js[k].fn]
\* the table a single start() leaves
SingleStartFns == TableFns(Register(<<>>, "sysA", BootHour, RegisteredByStart(month_unit)))
StartStartStopStop == <<"start", "start", "stop", "stop">>
\* the calls made are start(); start(); stop(); stop() on one coordinator
OnlyStartStartStopStop ==
    /\ calls["sysA"] = StartStartStopStop
    /\ \A o \in Coordinators \ {"sysA"} : calls[o] = <<>>

\* C4: start(); start(); stop(); stop() ends in the terminal state of start(); stop():
\* scheduler reported stopped, no background context alive, the same job table.
DoubleStartStopAsSingle ==
    (OnlyStartStartStopStop /\ joining = None) =>
        /\ ~running["sysA"]
        /\ AliveOf("sysA") = {}
        /\ TableFns(jobs) = SingleStartFns

\* C10: the job table seen by a Running scheduler is exactly the static table,
\* one job definition per job id, and after stop() no job remains scheduled.
JobTableIsStaticTable ==
    /\ (\E o \in Coordinators : running[o]) =>
          \A k \in 1..Len(StaticTable) :
              Cardinality({i \in 1..Len(jobs) : jobs[i].fn = StaticTable[k].fn}) = 1
    /\ (joining = None /\ \A o \in Coordinators : ~running[o]) => jobs = <<>>
\* thread t ends a job in this step
JobEnds(t) == pc[t] = "job" /\ todo'[t] # todo[t]
\* thread t starts a job in this step
JobStarts(t) == pc'[t] = "job" /\ (pc[t] # "job" \/ todo'[t] # todo[t])

\* C5: a failure raised inside a scheduled job is caught and logged: the other jobs
\* due in the same tick still run, the background loop goes on (the failure never
\* reaches the loop's own handler), and no caller sees it.
JobFailureIsContained ==
    /\ [][\A t \in Threads :
            (JobEnds(t) /\ Tail(todo[t]) # <<>>) =>
                /\ logged'[t] \in {"completed", "job error"}
                /\ todo'[t] = Tail(todo[t])
                /\ pc'[t] = "job"
                /\ \A u \in Threads \ {t} : pc'[u] = pc[u] /\ todo'[u] = todo[u]
                /\ UNCHANGED <<running, joining, calls>>]_vars
    /\ [](\A t \in Threads : logged[t] # "scheduler error")
    /\ [][\A t \in Threads : (Alive(t) /\ pc'[t] = "dead") => ~running[owner[t]]]_vars

\* a thread goes on with the next due job of a tick after a job of it failed
FailedJobThenNextJob ==
    \E t \in Threads : pc[t] = "job" /\ logged[t] = "job error"

UnitOf(i) == StaticTable[JobId(jobs[i].fn)].unit
AtOf(i) == StaticTable[JobId(jobs[i].fn)].at
Rescheduled(i) == jobs'[i].next_run # jobs[i].next_run

RECURSIVE AscendingIds(_)
AscendingIds(q) ==
    \/ Len(q) <= 1
    \/ /\ JobId(jobs[q[1]].fn) <= JobId(jobs[q[2]].fn)
       /\ AscendingIds(Tail(q))

\* C7: the due jobs of a tick are executed one at a time, never in parallel with
\* each other, and in ascending order of job id.
DueJobsOneAtATimeInIdOrder ==
    /\ Cardinality({t \in Threads : pc[t] = "job"}) <= 1
    /\ \A t \in Threads : AscendingIds(todo[t])

\* C8: cancellation is checked between jobs: once stop() is signalled no due job
\* of the tick that has not yet started is started.
NoJobStartsAfterStop ==
    [][\A t \in Threads :
          JobStarts(t) => running[owner[t]]]_vars

\* a stop() call on coordinator o is made in this step
StopCalled(o) == calls' = [calls EXCEPT ![o] = Append(@, "stop")]

\* C9: stop() always returns: it waits for the background context for a bounded
\* time and returns even when a job is still in flight, without ending the job;
\* stop() on a never-started scheduler returns as well.
StopAlwaysReturns ==
    /\ (joining # None) ~> (joining = None)
    /\ [][\A o \in Coordinators :
            (joining = o /\ joining' = None) => UNCHANGED <<pc, todo, jobs, running>>]_vars
    /\ [][\A o \in Coordinators :
            (StopCalled(o) /\ scheduler_thread[o] = NoThread) => joining' = None]_vars

\* stop() has returned while a job of its background thread is still in flight
StopReturnedDuringJob ==
    /\ joining = None
    /\ \E o \in Coordinators :
          /\ calls[o] # <<>>
          /\ calls[o][Len(calls[o])] = "stop"
          /\ scheduler_thread[o] # NoThread
          /\ pc[scheduler_thread[o]] = "job"

\* ------------------------------------------------------ get_system_status
\* what the storage does for a status query: sqlite3.connect raises, the query
\* fails inside execute_query (logged, [] returned), or the count comes back
DbOutcomes == {"connect error", "query error", "ok"}

\* DatabaseManager.execute_query for the two COUNT(*) queries of the status:
\* the rows it returns, [] after a query error; connect is outside its try
ExecuteCount(db) ==
    [raised |-> db = "connect error",
     rows   |-> IF db = "ok" THEN << <<0>> >> ELSE <<>>]

\* MultiAgentSystem.get_system_status of coordinator o when the storage does db
GetSystemStatus(o, db) ==
    LET scheduler_status == IF running[o] THEN "running" ELSE "stopped"
        recent == ExecuteCount(db)
    IN  IF recent.raised
        THEN \* except Exception: logged, an error snapshot is returned
             [system_status |-> "error", error |-> db]
        ELSE [system_status |-> "operational",
              database      |-> "connected",
              scheduler     |-> scheduler_status,
              recent_activity |->
                  IF recent.rows # <<>> THEN recent.rows[1][1] ELSE 0]

\* C11: get_system_status never raises, whatever the storage does, and its
\* scheduler field is 'running' exactly when recurring jobs are active: with
\* 'running' a background context is alive, with 'stopped' none is alive and so
\* none can still execute a scheduled job.
StatusTellsJobsActive ==
    \A o \in Coordinators : \A db \in DbOutcomes :
        LET status == GetSystemStatus(o, db)
        IN  /\ status.system_status \in {"operational", "error"}
            /\ "scheduler" \in DOMAIN status =>
                  /\ status.scheduler = "running" => AliveOf(o) # {}
                  /\ status.scheduler = "stopped" => AliveOf(o) = {}

\* --------------------------------------------------------- process_command
\* a command that is not a string (command.lower() raises AttributeError)
NotAString == "<not a string>"

\* the elif chain of process_command, in source order: the command, the agent
\* named in the envelope, the operation called, the keys read with params[..]
\* in the order they are read, the keys the handler reads with data[..], and
\* what the handler does when its body raises: it returns None, False or
\* {"error": str(e)} from its own except clause, or it lets the exception out
\* (the scraping coroutines and answer_question have no enclosing try)
CommandTable ==
    << [name |-> "create_transaction", agent |-> "accounting",
        op |-> "create_transaction", needs |-> <<>>,
        handler_needs |-> {"type", "amount"}, on_failure |-> "None"],
       [name |-> "financial_report", agent |-> "accounting",
        op |-> "generate_financial_report", needs |-> <<>>,
        handler_needs |-> {}, on_failure |-> "error dict"],
       [name |-> "account_balance", agent |-> "accounting",
        op |-> "get_account_balance", needs |-> <<>>,
        handler_needs |-> {}, on_failure |-> "error dict"],
       [name |-> "add_inventory", agent |-> "inventory",
        op |-> "add_item", needs |-> <<>>,
        handler_needs |-> {"name", "quantity", "unit_price"}, on_failure |-> "None"],
       [name |-> "update_inventory", agent |-> "inventory",
        op |-> "update_quantity", needs |-> <<"item_id", "quantity_change">>,
        handler_needs |-> {}, on_failure |-> "False"],
       [name |-> "inventory_report", agent |-> "inventory",
        op |-> "generate_inventory_report", needs |-> <<>>,
        handler_needs |-> {}, on_failure |-> "error dict"],
       [name |-> "submit_loan", agent |-> "mortgage",
        op |-> "submit_loan_application", needs |-> <<>>,
        handler_needs |-> {"applicant_name", "loan_amount", "loan_type", "income"},
        on_failure |-> "None"],
       [name |-> "calculate_mortgage", agent |-> "mortgage",
        op |-> "calculate_mortgage_payment", needs |-> <<"principal", "rate", "years">>,
        handler_needs |-> {}, on_failure |-> "error dict"],
       [name |-> "analyze_portfolio", agent |-> "finance",
        op |-> "analyze_portfolio_performance", needs |-> <<"symbols">>,
        handler_needs |-> {}, on_failure |-> "error dict"],
       [name |-> "budget_recommendation", agent |-> "finance",
        op |-> "generate_budget_recommendation", needs |-> <<"income", "expenses">>,
        handler_needs |-> {}, on_failure |-> "error dict"],
       [name |-> "retirement_planning", agent |-> "finance",
        op |-> "calculate_retirement_planning",
        needs |-> <<"current_age", "retirement_age", "current_savings",
                    "monthly_contribution">>,
        handler_needs |-> {}, on_failure |-> "error dict"],
       [name |-> "insurance_quote", agent |-> "insurance",
        op |-> "create_policy_quote", needs |-> <<>>,
        handler_needs |-> {"policy_type", "coverage_amount"},
        on_failure |-> "error dict"],
       [name |-> "process_claim", agent |-> "insurance",
        op |-> "process_claim", needs |-> <<>>,
        handler_needs |-> {"policy_id", "claim_amount"}, on_failure |-> "error dict"],
       [name |-> "create_wallet", agent |-> "web3",
        op |-> "create_wallet", needs |-> <<>>,
        handler_needs |-> {}, on_failure |-> "error dict"],
       [name |-> "get_balance", agent |-> "web3",
        op |-> "get_balance", needs |-> <<"address">>,
        handler_needs |-> {}, on_failure |-> "error dict"],
       [name |-> "gas_prices", agent |-> "web3",
        op |-> "get_gas_prices", needs |-> <<>>,
        handler_needs |-> {}, on_failure |-> "error dict"],
       [name |-> "scrape_stocks", agent |-> "scraping",
        op |-> "scrape_stock_prices", needs |-> <<"symbols">>,
        handler_needs |-> {}, on_failure |-> "raises"],
       [name |-> "scrape_crypto", agent |-> "scraping",
        op |-> "scrape_crypto_prices", needs |-> <<"symbols">>,
        handler_needs |-> {}, on_failure |-> "raises"],
       [name |-> "ask_question", agent |-> "ai",
        op |-> "answer_question", needs |-> <<"question">>,
        handler_needs |-> {}, on_failure |-> "raises"] >>

\* the command names the elif chain compares with
Recognized == {CommandTable[k].name : k \in 1..Len(CommandTable)}
Branch(name) == CommandTable[CHOOSE k \in 1..Len(CommandTable) : CommandTable[k].name = name]

\* the literal list returned as 'available_commands'
available_commands ==
    << "create_transaction", "financial_report", "account_balance",
       "add_inventory", "update_inventory", "inventory_report",
       "submit_loan", "calculate_mortgage", "analyze_portfolio",
       "budget_recommendation", "retirement_planning", "insurance_quote",
       "process_claim", "create_wallet", "get_balance", "gas_prices",
       "scrape_stocks", "scrape_crypto", "ask_question" >>

\* the commands a caller passes: the recognized names as written, spellings of
\* them in another case or with blanks around, other names, and a non-string
Spellings == {"CREATE_TRANSACTION", " gas_prices ", "Submit_Loan"}
UnknownNames == {"nonexistent_command", "", "transfer_funds", "STATUS "}
RawCommands == Recognized \cup Spellings \cup UnknownNames \cup {NotAString}

\* command.lower().strip() on the strings above
LowerStrip(raw) ==
    CASE raw = "CREATE_TRANSACTION" -> "create_transaction"
      [] raw = " gas_prices "       -> "gas_prices"
      [] raw = "Submit_Loan"        -> "submit_loan"
      [] raw = "STATUS "            -> "status"
      [] OTHER                      -> raw

\* the first key of `needs` that the parameter bag lacks (params[key] raises
\* KeyError while the arguments of the call are evaluated), or None
RECURSIVE FirstMissing(_, _)
FirstMissing(needs, ps) ==
    IF needs = <<>> THEN None
    ELSE IF Head(needs) \notin ps THEN Head(needs)
    ELSE FirstMissing(Tail(needs), ps)

\* variant: the else branch without the list of commands
UnknownWithoutCatalog(c) ==
    [error |-> [kind |-> "Unknown command", text |-> c]]

\* the else branch of the elif chain
UnknownCommand(c) ==
    [error |-> [kind |-> "Unknown command", text |-> c],
     available_commands |-> available_commands]

\* `except Exception as e: return {'error': str(e)}` of process_command
Caught(kind, text) == [error |-> [kind |-> kind, text |-> text]]

\* process_command(raw, params) when the handler body raises iff `raises`:
\* the operation called, whether it failed, and the dictionary returned
Dispatch(raw, ps, raises) ==
    IF raw = NotAString
    THEN [invoked |-> None, failed |-> FALSE,
          envelope |-> Caught("AttributeError", "lower")]
    ELSE LET c == LowerStrip(raw)
         IN  IF c \notin Recognized
             THEN [invoked |-> None, failed |-> FALSE, envelope |-> UnknownCommand(c)]
             ELSE LET b == Branch(c)
                      missing == FirstMissing(b.needs, ps)
                      bodyRaises == raises \/ ~(b.handler_needs \subseteq ps)
                  IN  IF missing # None
                      THEN [invoked |-> None, failed |-> TRUE,
                            envelope |-> Caught("KeyError", missing)]
                      ELSE IF ~bodyRaises
                      THEN [invoked |-> b.op, failed |-> FALSE,
                            envelope |-> [result |-> [kind |-> "value"],
                                          agent |-> b.agent]]
                      ELSE IF b.on_failure = "raises"
                      THEN [invoked |-> b.op, failed |-> TRUE,
                            envelope |-> Caught("Exception", "failure message")]
                      ELSE \* the handler caught it and returned None, False or
                           \* {"error": ..}: that is the 'result'
                           [invoked |-> b.op, failed |-> TRUE,
                            envelope |-> [result |-> [kind |-> b.on_failure],
                                          agent |-> b.agent]]

\* the keys a parameter bag for this command may hold
KeysOf(raw) ==
    IF raw # NotAString /\ LowerStrip(raw) \in Recognized
    THEN LET b == Branch(LowerStrip(raw))
         IN  {b.needs[k] : k \in 1..Len(b.needs)} \cup b.handler_needs
    ELSE {}

\* MultiAgentSystem.process_command
ProcessCommand ==
    /\ \E raw \in RawCommands : \E ps \in SUBSET KeysOf(raw) : \E raises \in BOOLEAN :
          LET r == Dispatch(raw, ps, raises)
          IN  /\ command' = raw
              /\ params' = ps
              /\ invoked' = r.invoked
              /\ failed' = r.failed
              /\ envelope' = r.envelope
    /\ UNCHANGED <<schedulerVars, inventoryVars, riskVars, loanVars, mortgageVars,
                 budgetVars, insuranceVars>>

NextDispatch == ProcessCommand

\* the dispatcher alone: commands are processed one after the other
SpecDispatch == Init /\ [][NextDispatch]_vars

\* a command has been processed
Processed == command # None
Keys(e) == DOMAIN e

\* the names listed in a sequence
Names(list) == {list[k] : k \in 1..Len(list)}
\* the envelope of an unknown command: an error naming the command as the code
\* compared it, and the list of commands
IsUnknownCommandError(e, c) ==
    /\ Keys(e) = {"error", "available_commands"}
    /\ e.error = [kind |-> "Unknown command", text |-> c]
    /\ Names(e.available_commands) = Recognized

\* C12 (as claimed): for every command name that is not in the command catalog
\* no handler operation is invoked and the envelope is the unknown-command
\* error carrying the catalog.
NameOutsideCatalogRejected ==
    (Processed /\ command # NotAString /\ command \notin Names(available_commands)) =>
        /\ invoked = None
        /\ IsUnknownCommandError(envelope, LowerStrip(command))

\* C12 (amended): for every command string whose lower-cased, stripped form is
\* not in the catalog no handler operation is invoked and the envelope is the
\* unknown-command error for that form, carrying the catalog; a spelling of a
\* catalog name in another case or with blanks around it is dispatched.
NormalizedNameOutsideCatalogRejected ==
    /\ (Processed /\ command # NotAString
          /\ LowerStrip(command) \notin Names(available_commands)) =>
            /\ invoked = None
            /\ ~failed
            /\ IsUnknownCommandError(envelope, LowerStrip(command))
    /\ (Processed /\ command \in Spellings) =>
            ~IsUnknownCommandError(envelope, LowerStrip(command))

\* 'nonexistent_command' with empty params got the unknown-command error
NonexistentCommandProcessed ==
    /\ command = "nonexistent_command"
    /\ params = {}
    /\ "available_commands" \in Keys(envelope)

\* command names in ascending order
Alphabetical ==
    << "account_balance", "add_inventory", "analyze_portfolio", "ask_question",
       "budget_recommendation", "calculate_mortgage", "create_transaction",
       "create_wallet", "financial_report", "gas_prices", "get_balance",
       "insurance_quote", "inventory_report", "process_claim",
       "retirement_planning", "scrape_crypto", "scrape_stocks", "submit_loan",
       "update_inventory" >>
Rank(name) == CHOOSE k \in 1..Len(Alphabetical) : Alphabetical[k] = name
Ascending(list) ==
    \A k \in 1..(Len(list) - 1) : Rank(list[k]) < Rank(list[k + 1])

\* C13: the catalog returned with an unknown-command error is the same list for
\* every unknown command, in ascending order of command name, and holds exactly
\* the command names process_command recognizes.
CatalogStableSortedExact ==
    /\ []("available_commands" \in Keys(envelope) =>
             /\ Names(envelope.available_commands) = Recognized
             /\ Len(envelope.available_commands) = Cardinality(Recognized)
             /\ Ascending(envelope.available_commands))
    /\ [][("available_commands" \in Keys(envelope)
             /\ "available_commands" \in Keys(envelope')) =>
                envelope'.available_commands = envelope.available_commands]_vars

\* C14: process_command never raises, and whenever the handler operation failed
\* or a required parameter was missing the envelope is an error envelope with
\* the failure at top level, never a success envelope.
FailureGivesErrorEnvelope ==
    Processed =>
        /\ Keys(envelope) \cap {"result", "error"} # {}
        /\ failed => ("error" \in Keys(envelope) /\ "result" \notin Keys(envelope))

\* C15: every envelope holds exactly one of 'result' and 'error' and names the
\* agent that owns the command.
EnvelopeHasOneOutcomeAndAgent ==
    Processed =>
        /\ Cardinality(Keys(envelope) \cap {"result", "error"}) = 1
        /\ "agent" \in Keys(envelope)
        /\ (command # NotAString /\ LowerStrip(command) \in Recognized) =>
              envelope.agent = Branch(LowerStrip(command)).agent

\* --------------------------------------------------------- update_quantity
InitInventory ==
    /\ SchedulerInit /\ DispatchIdle /\ RiskIdle /\ LoanIdle /\ MortgageIdle
    /\ BudgetIdle /\ InsuranceIdle
    /\ quantity \in 0..MaxQuantity
    /\ initial_quantity = quantity
    /\ update = [c \in Callers |-> NotCalled]

\* InventoryAgent.update_quantity up to the UPDATE: the SELECT reads the stored
\* quantity on a connection of its own (execute_query connects, runs the one
\* statement and closes), and a change below zero is refused
Select(c) ==
    /\ update[c].pc = "idle"
    /\ \E quantity_change \in (0 - MaxChange)..MaxChange :
          LET new_quantity == quantity + quantity_change
          IN  update' = [update EXCEPT ![c] =
                  IF new_quantity < 0
                  THEN [pc |-> "done", item_id |-> Item,
                        quantity_change |-> quantity_change,
                        current_quantity |-> quantity, returned |-> "False"]
                  ELSE [pc |-> "update", item_id |-> Item,
                        quantity_change |-> quantity_change,
                        current_quantity |-> quantity, returned |-> None]]
    /\ UNCHANGED <<quantity, initial_quantity, schedulerVars, dispatchVars, riskVars,
                 loanVars, mortgageVars,
                 budgetVars, insuranceVars>>

\* the UPDATE, on another connection, writes the quantity computed from the
\* value read before; update_quantity returns True
Update(c) ==
    /\ update[c].pc = "update"
    /\ quantity' = update[c].current_quantity + update[c].quantity_change
    /\ update' = [update EXCEPT ![c].pc = "done", ![c].returned = "True"]
    /\ UNCHANGED <<initial_quantity, schedulerVars, dispatchVars, riskVars,
                 loanVars, mortgageVars,
                 budgetVars, insuranceVars>>

NextInventory ==
    \/ \E c \in Callers : Select(c)
    \/ \E c \in Callers : Update(c)

\* callers of update_quantity running concurrently on one item
SpecInventory == InitInventory /\ [][NextInventory]_vars

RECURSIVE AcceptedChanges(_)
\* the sum of the changes of the calls that returned True
AcceptedChanges(S) ==
    IF S = {} THEN 0
    ELSE LET c == CHOOSE x \in S : TRUE
         IN  (IF update[c].returned = "True" THEN update[c].quantity_change ELSE 0)
             + AcceptedChanges(S \ {c})

\* C16: concurrent update_inventory commands on one item behave atomically: once
\* they have returned the quantity is the initial quantity plus the sum of the
\* accepted changes, and it is never negative.
ConcurrentUpdatesAtomic ==
    /\ quantity >= 0
    /\ (\A c \in Callers : update[c].pc # "update") =>
          quantity = initial_quantity + AcceptedChanges(Callers)

\* -------------------------------------------------------- _assess_loan_risk
\* Applications: credit scores around the band edges, the debt-to-income ratio
\* in hundredths, the amounts in thousands.
CreditScores == {579, 580, 669, 670, 720, 740, 741}
DebtToIncomes == {25, 27, 28, 43, 44}
LoanAmounts == {75, 80, 95, 96}
Incomes == {0, 15, 25, 30}
PropertyValues == {0, 100}
Applications ==
    [credit_score : CreditScores, debt_to_income : DebtToIncomes,
     loan_amount : LoanAmounts, income : Incomes, property_value : PropertyValues]

\* loan_to_income = loan_amount / income if income > 0 else 999, compared with n
LoanToIncomeAbove(app, n) ==
    IF app.income > 0 THEN app.loan_amount > n * app.income ELSE 999 > n
LoanToIncomeBelow(app, n) ==
    IF app.income > 0 THEN app.loan_amount < n * app.income ELSE 999 < n

\* loan_to_value = loan_amount / property_value if property_value > 0 else 1,
\* compared with h hundredths
LoanToValueAbove(app, h) ==
    IF app.property_value > 0
    THEN app.loan_amount * 100 > h * app.property_value ELSE 100 > h
LoanToValueBelow(app, h) ==
    IF app.property_value > 0
    THEN app.loan_amount * 100 < h * app.property_value ELSE 100 < h

\* what a rule adds to risk_score and appends to risk_factors
Step(delta, factors) == [delta |-> delta, factors |-> factors]

\* variant: the band edge at 580 taken into the poor band
CreditRuleEdgeIncluded(app) ==
    IF app.credit_score <= 580 THEN Step(40, <<"Poor credit score">>)
    ELSE IF app.credit_score < 670 THEN Step(20, <<"Fair credit score">>)
    ELSE IF app.credit_score > 740 THEN Step(0 - 10, <<>>)
    ELSE Step(0, <<>>)

\* variant: a very good credit score counted against the applicant
CreditRuleSignFlipped(app) ==
    IF app.credit_score < 580 THEN Step(40, <<"Poor credit score">>)
    ELSE IF app.credit_score < 670 THEN Step(20, <<"Fair credit score">>)
    ELSE IF app.credit_score > 740 THEN Step(10, <<>>)
    ELSE Step(0, <<>>)

\* credit score assessment
CreditRule(app) ==
    IF app.credit_score < 580 THEN Step(40, <<"Poor credit score">>)
    ELSE IF app.credit_score < 670 THEN Step(20, <<"Fair credit score">>)
    ELSE IF app.credit_score > 740 THEN Step(0 - 10, <<>>)
    ELSE Step(0, <<>>)

\* variant: a low debt-to-income ratio is noted among the factors
DebtToIncomeRuleLowNoted(app) ==
    IF app.debt_to_income > 43 THEN Step(30, <<"High debt-to-income ratio">>)
    ELSE IF app.debt_to_income < 28 THEN Step(0 - 5, <<"Low debt-to-income ratio">>)
    ELSE Step(0, <<>>)

\* debt-to-income ratio
DebtToIncomeRule(app) ==
    IF app.debt_to_income > 43 THEN Step(30, <<"High debt-to-income ratio">>)
    ELSE IF app.debt_to_income < 28 THEN Step(0 - 5, <<>>)
    ELSE Step(0, <<>>)

\* loan-to-value ratio
LoanToValueRule(app) ==
    IF LoanToValueAbove(app, 95) THEN Step(25, <<"High loan-to-value ratio">>)
    ELSE IF LoanToValueBelow(app, 80) THEN Step(0 - 5, <<>>)
    ELSE Step(0, <<>>)

\* loan-to-income ratio
LoanToIncomeRule(app) ==
    IF LoanToIncomeAbove(app, 5) THEN Step(20, <<"High loan-to-income ratio">>)
    ELSE IF LoanToIncomeBelow(app, 3) THEN Step(0 - 5, <<>>)
    ELSE Step(0, <<>>)

\* variant: a score of exactly 20 is no longer low
RiskLevelBelow20(risk_score) ==
    IF risk_score < 20 THEN "low"
    ELSE IF risk_score <= 50 THEN "medium"
    ELSE "high"

\* determine risk level
RiskLevel(risk_score) ==
    IF risk_score <= 20 THEN "low"
    ELSE IF risk_score <= 50 THEN "medium"
    ELSE "high"

\* what happens inside AIModelManager.generate_text: the models were never
\* loaded, the model raises, or it samples a text
Inference == {"not loaded", "model error", "sampled text"}

\* generate_text without its except clause: the model's error reaches the caller
GenerateTextUncaught(ai) ==
    IF ai = "not loaded" THEN [raised |-> FALSE, text |-> "fallback"]
    ELSE IF ai = "model error" THEN [raised |-> TRUE, text |-> "none"]
    ELSE [raised |-> FALSE, text |-> ai]

\* AIModelManager.generate_text: the fallback text when the models are not
\* loaded or the model raises, the sampled text otherwise; it never raises
GenerateText(ai) ==
    IF ai = "not loaded" THEN [raised |-> FALSE, text |-> "fallback"]
    ELSE IF ai = "model error" THEN [raised |-> FALSE, text |-> "fallback"]
    ELSE [raised |-> FALSE, text |-> ai]

\* MortgageAgent._assess_loan_risk; `raises` when something in the try block
\* other than generate_text raises; the except clause turns every exception
\* into the fixed error assessment (the rounded ratios and the time stamp of
\* the dictionary are left out)
AssessLoanRisk(app, raises, ai) ==
    LET recommendation == GenerateText(ai)
    IN  IF raises \/ recommendation.raised
        THEN [risk_score |-> 100, risk_level |-> "high",
              risk_factors |-> <<"Assessment error">>, error |-> "str(e)"]
        ELSE LET credit == CreditRule(app)
                 dti == DebtToIncomeRule(app)
                 ltv == LoanToValueRule(app)
                 lti == LoanToIncomeRule(app)
                 risk_score == 0 + credit.delta + dti.delta + ltv.delta + lti.delta
             IN  [risk_score |-> risk_score,
                  risk_level |-> RiskLevel(risk_score),
                  risk_factors |-> credit.factors \o dti.factors \o ltv.factors
                                      \o lti.factors,
                  ai_recommendation |-> recommendation.text]

InitRisk ==
    /\ SchedulerInit /\ DispatchIdle /\ InventoryIdle /\ LoanIdle /\ MortgageIdle
    /\ BudgetIdle /\ InsuranceIdle
    /\ application \in Applications
    /\ assessment = NotAssessed

\* the application is assessed
Assess ==
    /\ "pending" \in DOMAIN assessment
    /\ \E raises \in BOOLEAN, ai \in Inference :
          assessment' = AssessLoanRisk(application, raises, ai)
    /\ UNCHANGED <<application, schedulerVars, dispatchVars, inventoryVars, loanVars,
                 mortgageVars,
                 budgetVars, insuranceVars>>

NextRisk == Assess

\* the risk engine alone, over the applications above
SpecRisk == InitRisk /\ [][NextRisk]_vars

\* the rules produced the assessment (not the except clause)
Scored == "risk_score" \in DOMAIN assessment /\ "error" \notin DOMAIN assessment

\* the deltas of the rule set as the specification lists them
CreditDelta(app) ==
    IF app.credit_score < 580 THEN 40
    ELSE IF app.credit_score \in 580..669 THEN 20
    ELSE IF app.credit_score > 740 THEN 0 - 10
    ELSE 0
DebtToIncomeDelta(app) ==
    IF app.debt_to_income > 43 THEN 30
    ELSE IF app.debt_to_income < 28 THEN 0 - 5
    ELSE 0
LoanToValueDelta(app) ==
    IF LoanToValueAbove(app, 95) THEN 25
    ELSE IF LoanToValueBelow(app, 80) THEN 0 - 5
    ELSE 0
LoanToIncomeDelta(app) ==
    IF LoanToIncomeAbove(app, 5) THEN 20
    ELSE IF LoanToIncomeBelow(app, 3) THEN 0 - 5
    ELSE 0

\* credit 720, DTI 0.25, LTV 0.75, LTI 2.5
ExampleApplication ==
    [credit_score |-> 720, debt_to_income |-> 25, loan_amount |-> 75,
     income |-> 30, property_value |-> 100]

\* C17: the risk score the rules give is 0 plus the fixed deltas of the credit
\* score, debt-to-income, loan-to-value and loan-to-income bands and nothing
\* else; the example application scores <= 0 and is low.
RiskScoreIsSumOfDeltas ==
    Scored =>
        /\ assessment.risk_score =
              0 + CreditDelta(application) + DebtToIncomeDelta(application)
                + LoanToValueDelta(application) + LoanToIncomeDelta(application)
        /\ application = ExampleApplication =>
              (assessment.risk_score <= 0 /\ assessment.risk_level = "low")

\* the example application has been scored
ExampleScored ==
    Scored /\ application = ExampleApplication /\ assessment.risk_score = 0 - 15

\* C18: the level is a total, single-valued function of every score the engine
\* returns, the error assessment included: low iff score <= 20, medium iff
\* 21 <= score <= 50, high iff score > 50.
LevelMatchesScore ==
    "risk_score" \in DOMAIN assessment =>
        /\ assessment.risk_level \in {"low", "medium", "high"}
        /\ assessment.risk_level = "low" <=> assessment.risk_score <= 20
        /\ assessment.risk_level = "medium" <=>
              (21 <= assessment.risk_score /\ assessment.risk_score <= 50)
        /\ assessment.risk_level = "high" <=> assessment.risk_score > 50

\* the error assessment has been returned
ErrorAssessed ==
    /\ "error" \in DOMAIN assessment
    /\ assessment.risk_score > 50
    /\ assessment.risk_level = "high"

\* the score of the application with another credit score
ScoreWith(credit_score) ==
    AssessLoanRisk([application EXCEPT !.credit_score = credit_score], FALSE,
                   "not loaded").risk_score

\* C19: with the other inputs fixed the risk score does not decrease as the
\* credit score decreases: c1 >= c2 implies score(c1) <= score(c2).
ScoreMonotoneInCredit ==
    Scored =>
        /\ \A c \in CreditScores :
              /\ c >= application.credit_score => ScoreWith(c) <= assessment.risk_score
              /\ c <= application.credit_score => ScoreWith(c) >= assessment.risk_score
        /\ \A c1, c2 \in CreditScores : c1 >= c2 => ScoreWith(c1) <= ScoreWith(c2)

\* a poor credit score has been scored, strictly above a very good one
PoorCreditScoredHigher ==
    /\ Scored
    /\ application.credit_score < 580
    /\ \E c \in CreditScores : c > 740 /\ ScoreWith(c) < assessment.risk_score

\* the rules in the order they are evaluated
RuleOrder == <<"credit score", "debt-to-income", "loan-to-value", "loan-to-income">>
DeltaOf(rule) ==
    CASE rule = "credit score"   -> CreditDelta(application)
      [] rule = "debt-to-income" -> DebtToIncomeDelta(application)
      [] rule = "loan-to-value"  -> LoanToValueDelta(application)
      [] rule = "loan-to-income" -> LoanToIncomeDelta(application)
\* the rule a factor text belongs to
FactorRule(factor) ==
    CASE factor \in {"Poor credit score", "Fair credit score"} -> "credit score"
      [] factor = "High debt-to-income ratio" -> "debt-to-income"
      [] factor = "High loan-to-value ratio"  -> "loan-to-value"
      [] factor = "High loan-to-income ratio" -> "loan-to-income"
      [] OTHER -> "no rule"
RulesOfFactors == [k \in 1..Len(assessment.risk_factors) |->
                      FactorRule(assessment.risk_factors[k])]
ChangedScore(rule) == DeltaOf(rule) # 0
RaisedScore(rule) == DeltaOf(rule) > 0

\* C20 (as claimed): the factors list has one entry for each rule that changed
\* the score, in the order the rules are evaluated.
FactorForEachRuleThatChangedScore ==
    Scored => RulesOfFactors = SelectSeq(RuleOrder, ChangedScore)

\* C20 (amended): the factors list has one entry for each rule that raised the
\* score, in the order the rules are evaluated; a rule that lowered the score
\* adds no entry.
FactorForEachRuleThatRaisedScore ==
    Scored => RulesOfFactors = SelectSeq(RuleOrder, RaisedScore)

\* an assessment in which one rule lowered the score and two others raised it
LoweredAndRaisedScored ==
    /\ Scored
    /\ CreditDelta(application) < 0
    /\ Len(assessment.risk_factors) >= 2

\* ------------------------------------------------ submit_loan_application
\* the ids _generate_id can give (12 hex digits of an md5: nothing keeps two
\* calls from giving the same one)
LoanIds == {"loan1", "loan2"}

\* application_data dictionaries: complete ones of each risk level, one that
\* leaves the optional keys out and one without the required 'income'
LoanRequests ==
    { [applicant_name |-> "low", loan_amount |-> 75, income |-> 30,
       credit_score |-> 720, debt_to_income |-> 25, property_value |-> 100],
      [applicant_name |-> "medium", loan_amount |-> 80, income |-> 25,
       credit_score |-> 579, debt_to_income |-> 28, property_value |-> 100],
      [applicant_name |-> "high", loan_amount |-> 96, income |-> 15,
       credit_score |-> 579, debt_to_income |-> 44, property_value |-> 100],
      [applicant_name |-> "defaults", loan_amount |-> 80, income |-> 25],
      [applicant_name |-> "no income", loan_amount |-> 80] }

\* application_data[key], which raises KeyError without the key
RequiredKeys == {"applicant_name", "loan_amount", "income"}
\* application_data.get(key, default)
Get(data, key, default) == IF key \in DOMAIN data THEN data[key] ELSE default

\* the LoanApplication built from the dictionary (debt_to_income in hundredths)
LoanApplicationOf(data) ==
    [credit_score |-> Get(data, "credit_score", 650),
     debt_to_income |-> Get(data, "debt_to_income", 30),
     loan_amount |-> data.loan_amount,
     income |-> data.income,
     property_value |-> Get(data, "property_value", 0)]

\* a status rule that rejects medium risk as well
DeriveStatusMediumRejected(risk_level) ==
    IF risk_level = "low" THEN "pre_approved"
    ELSE IF risk_level = "high" THEN "rejected"
    ELSE "rejected"

\* the status submit_loan_application gives for a risk level
DeriveStatus(risk_level) ==
    IF risk_level = "low" THEN "pre_approved"
    ELSE IF risk_level = "high" THEN "rejected"
    ELSE "under_review"

\* DatabaseManager.execute_query with an INSERT: connect() is outside the try
\* and raises to the caller; every error of the statement itself (a failing
\* disk, a primary key already in the table) is logged, rolled back and
\* answered with []; otherwise the row is committed
ExecuteInsert(table, row, db) ==
    [raised |-> db = "connect error",
     table |-> IF db = "ok" /\ \A r \in table : r.id # row.id
               THEN table \cup {row} ELSE table]

\* MortgageAgent.submit_loan_application
SubmitLoanApplication ==
    \E data \in LoanRequests, id \in LoanIds, raises \in BOOLEAN,
       ai \in Inference, db \in DbOutcomes :
        IF ~(RequiredKeys \subseteq DOMAIN data)
        THEN /\ submission' = [application_data |-> data, raises |-> raises,
                               returned |-> None]
             /\ UNCHANGED loan_applications
        ELSE LET app == LoanApplicationOf(data)
                 risk_assessment == AssessLoanRisk(app, raises, ai)
                 status == DeriveStatus(risk_assessment.risk_level)
                 row == [id |-> id, application |-> app, status |-> status,
                         risk_assessment |-> risk_assessment]
                 insert == ExecuteInsert(loan_applications, row, db)
             IN  /\ loan_applications' = insert.table
                 /\ submission' = [application_data |-> data, raises |-> raises,
                                   status |-> status,
                                   risk_assessment |-> risk_assessment,
                                   returned |-> IF insert.raised THEN None ELSE id]

\* MortgageAgent.get_application_status: the row with the id, or an error
GetApplicationStatus(application_id) ==
    IF \E r \in loan_applications : r.id = application_id
    THEN CHOOSE r \in loan_applications : r.id = application_id
    ELSE [error |-> "Application not found"]

SubmitLoan ==
    /\ SubmitLoanApplication
    /\ UNCHANGED <<schedulerVars, dispatchVars, inventoryVars, riskVars, mortgageVars,
                 budgetVars, insuranceVars>>

NextLoan == SubmitLoan

\* loan applications submitted one after another
SpecLoan == Init /\ [][NextLoan]_vars

\* C21: every persisted loan application carries its risk assessment and a
\* status given by the assessed level alone (pre_approved iff low, rejected iff
\* high, under_review iff medium, no other status), and no step changes or
\* removes a persisted application.
PersistedStatusFromLevel ==
    /\ [](\A r \in loan_applications :
            /\ "risk_level" \in DOMAIN r.risk_assessment
            /\ r.status \in {"pre_approved", "rejected", "under_review"}
            /\ r.status = "pre_approved" <=> r.risk_assessment.risk_level = "low"
            /\ r.status = "rejected" <=> r.risk_assessment.risk_level = "high"
            /\ r.status = "under_review" <=> r.risk_assessment.risk_level = "medium")
    /\ [][\A r \in loan_applications : r \in loan_applications']_vars

\* an application under review and a rejected one are in the table
ReviewedAndRejectedPersisted ==
    \E r1, r2 \in loan_applications :
        /\ r1.status = "under_review" /\ r1.risk_assessment.risk_level = "medium"
        /\ r2.status = "rejected" /\ r2.risk_assessment.risk_level = "high"

\* the last submission got as far as the assessment
Assessed == "risk_assessment" \in DOMAIN submission

\* the assessment the last submission would have got with another inference
\* outcome and everything else the same
AssessmentWith(ai) ==
    AssessLoanRisk(LoanApplicationOf(submission.application_data),
                   submission.raises, ai)

\* C27: the inference collaborator is never required for correctness: two
\* submissions of the same application that differ only in what generate_text
\* returns, or in whether the model behind it fails, get the same risk score,
\* level, factors and status.
InferenceDecidesNothing ==
    Assessed =>
        \A ai \in Inference :
            /\ AssessmentWith(ai).risk_score = submission.risk_assessment.risk_score
            /\ AssessmentWith(ai).risk_level = submission.risk_assessment.risk_level
            /\ AssessmentWith(ai).risk_factors = submission.risk_assessment.risk_factors
            /\ DeriveStatus(AssessmentWith(ai).risk_level) = submission.status

\* the same application was persisted twice, once with a sampled
\* recommendation and once with the fallback text
SameApplicationTwoRecommendations ==
    \E r1, r2 \in loan_applications :
        /\ r1.application = r2.application
        /\ "ai_recommendation" \in DOMAIN r1.risk_assessment
        /\ "ai_recommendation" \in DOMAIN r2.risk_assessment
        /\ r1.risk_assessment.ai_recommendation = "sampled text"
        /\ r2.risk_assessment.ai_recommendation = "fallback"
        /\ r1.status = r2.status

\* C30: an id returned by submit_loan_application identifies a record that
\* exists in the store, the one of the application just submitted: when the
\* insert fails no id is returned.
ReturnedIdIsPersisted ==
    (submission # NotSubmitted /\ submission.returned # None) =>
        LET found == GetApplicationStatus(submission.returned)
        IN  /\ "error" \notin DOMAIN found
            /\ found.application = LoanApplicationOf(submission.application_data)

\* ---------------------------------------------- calculate_mortgage_payment
\* The floats of the code are modelled by exact fractions num/den (den > 0, in
\* lowest terms); money is reported in whole cents.
Abs(a) == IF a < 0 THEN 0 - a ELSE a

RECURSIVE GCD(_, _)
GCD(a, b) == IF b = 0 THEN a ELSE GCD(b, a % b)

Frac(a, b) ==
    LET g == GCD(Abs(a), Abs(b))
        sign == IF b < 0 THEN 0 - 1 ELSE 1
    IN  [num |-> sign * (a \div g), den |-> sign * (b \div g)]

Whole(a) == [num |-> a, den |-> 1]
Plus(x, y) == Frac(x.num * y.den + y.num * x.den, x.den * y.den)
Minus(x, y) == Frac(x.num * y.den - y.num * x.den, x.den * y.den)
Times(x, y) == Frac(x.num * y.num, x.den * y.den)
\* x / y for y # 0 (Python raises ZeroDivisionError for y = 0)
Over(x, y) == Frac(x.num * y.den, x.den * y.num)

\* x ** n for an integer n
RECURSIVE Power(_, _)
Power(x, n) ==
    IF n = 0 THEN Whole(1)
    ELSE IF n < 0 THEN Over(Whole(1), Power(x, 0 - n))
    ELSE Times(x, Power(x, n - 1))

\* round(x, 2) in cents: the nearest cent, a tie going to the even cent
Round2(x) ==
    LET twice == 200 * x.num
        up == (twice + x.den) \div (2 * x.den)
    IN  IF (twice + x.den) % (2 * x.den) = 0 /\ up % 2 # 0 THEN up - 1 ELSE up

\* range(1, min(13, num_payments + 1))
FirstYear(num_payments) ==
    IF num_payments < 1 THEN 0 ELSE IF num_payments < 12 THEN num_payments ELSE 12

\* the loop with the balance reduced by the rounded principal portion
RECURSIVE AmortizationOfRounded(_, _, _, _, _)
AmortizationOfRounded(balance, month, last, monthly_payment, monthly_rate) ==
    IF month > last THEN <<>>
    ELSE LET interest_payment == Times(balance, monthly_rate)
             principal_payment == Minus(monthly_payment, interest_payment)
             left == Minus(balance, Frac(Round2(principal_payment), 100))
         IN  << [month |-> month,
                 payment |-> Round2(monthly_payment),
                 principal |-> Round2(principal_payment),
                 interest |-> Round2(interest_payment),
                 balance |-> Round2(left)] >>
             \o AmortizationOfRounded(left, month + 1, last, monthly_payment,
                                      monthly_rate)

\* the loop over the first year: the entries for month..last, from the balance
\* before that month
RECURSIVE Amortization(_, _, _, _, _)
Amortization(balance, month, last, monthly_payment, monthly_rate) ==
    IF month > last THEN <<>>
    ELSE LET interest_payment == Times(balance, monthly_rate)
             principal_payment == Minus(monthly_payment, interest_payment)
             left == Minus(balance, principal_payment)
         IN  << [month |-> month,
                 payment |-> Round2(monthly_payment),
                 principal |-> Round2(principal_payment),
                 interest |-> Round2(interest_payment),
                 balance |-> Round2(left)] >>
             \o Amortization(left, month + 1, last, monthly_payment, monthly_rate)

\* MortgageAgent.calculate_mortgage_payment (principal in currency units, rate
\* in percent a year, amounts of the result in cents); the ZeroDivisionError
\* of either formula is caught and returned as an error dictionary
CalculateMortgagePayment(principal, rate, years) ==
    LET monthly_rate == Over(Over(Whole(rate), Whole(12)), Whole(100))
        num_payments == years * 12
        growth == Power(Plus(Whole(1), monthly_rate), num_payments)
        divisor == IF monthly_rate.num > 0 THEN Minus(growth, Whole(1))
                   ELSE Whole(num_payments)
    IN  IF divisor.num = 0
        THEN [error |-> "division by zero"]
        ELSE LET monthly_payment ==
                     IF monthly_rate.num > 0
                     THEN Over(Times(Whole(principal), Times(monthly_rate, growth)),
                               divisor)
                     ELSE Over(Whole(principal), divisor)
                 total_payment == Times(monthly_payment, Whole(num_payments))
                 total_interest == Minus(total_payment, Whole(principal))
             IN  [principal |-> principal,
                  interest_rate |-> rate,
                  loan_term_years |-> years,
                  monthly_payment |-> Round2(monthly_payment),
                  total_payment |-> Round2(total_payment),
                  total_interest |-> Round2(total_interest),
                  first_year_amortization |->
                      Amortization(Whole(principal), 1, FirstYear(num_payments),
                                   monthly_payment, monthly_rate)]

\* the arguments tried: any principal and term with rate 0, and a monthly rate
\* of 100% (1200% a year) for terms of at most a year
Principals == {0 - 100, 0, 100, 250, 1000, 1200}
MortgageArgs ==
    [principal : Principals, rate : {0}, years : {0 - 1, 0, 1, 2}]
    \cup [principal : Principals, rate : {1200}, years : {0 - 1, 0, 1}]

InitMortgage ==
    /\ SchedulerInit /\ DispatchIdle /\ InventoryIdle /\ RiskIdle /\ LoanIdle
    /\ BudgetIdle /\ InsuranceIdle
    /\ mortgage_args \in MortgageArgs
    /\ mortgage = NotCalculated

\* the mortgage is calculated
Calculate ==
    /\ "pending" \in DOMAIN mortgage
    /\ mortgage' = CalculateMortgagePayment(mortgage_args.principal,
                                            mortgage_args.rate, mortgage_args.years)
    /\ UNCHANGED <<mortgage_args, schedulerVars, dispatchVars, inventoryVars,
                   riskVars, loanVars, budgetVars, insuranceVars>>

NextMortgage == Calculate

\* the amortization engine alone, over the arguments above
SpecMortgage == InitMortgage /\ [][NextMortgage]_vars

ValidArgs ==
    mortgage_args.principal > 0 /\ mortgage_args.rate >= 0 /\ mortgage_args.years > 0
Calculated == "monthly_payment" \in DOMAIN mortgage

\* C22: for valid arguments the reported monthly payment times the number of
\* payments (years * 12) differs from the reported total payment by at most
\* one cent.
PaymentsAddUpToTotal ==
    (ValidArgs /\ Calculated) =>
        Abs(mortgage.monthly_payment * (mortgage_args.years * 12)
            - mortgage.total_payment) <= 1

Schedule == mortgage.first_year_amortization

\* C23: with an annual rate of 0 and valid principal and term the result is not
\* an error: the payment is principal / (years * 12), the total interest is 0,
\* every schedule entry has interest portion 0, and the balance after month k
\* is principal - k * principal / (years * 12) (amounts to the cent).
ZeroRateDegradesToEqualParts ==
    (ValidArgs /\ mortgage_args.rate = 0 /\ "pending" \notin DOMAIN mortgage) =>
        LET n == mortgage_args.years * 12
        IN  /\ "error" \notin DOMAIN mortgage
            /\ mortgage.monthly_payment = Round2(Frac(mortgage_args.principal, n))
            /\ mortgage.total_interest = 0
            /\ Len(Schedule) = 12
            /\ \A k \in 1..Len(Schedule) :
                  /\ Schedule[k].interest = 0
                  /\ Schedule[k].balance =
                        Round2(Frac(mortgage_args.principal * (n - k), n))

\* 100 over one year at 0%: twelve payments of 8.33, nothing left
HundredOverOneYearAtZero ==
    /\ mortgage_args = [principal |-> 100, rate |-> 0, years |-> 1]
    /\ Calculated
    /\ mortgage.monthly_payment = 833
    /\ Schedule[12].balance = 0

\* C24: calculate_mortgage_payment called with a non-positive principal or a
\* non-positive term is rejected with an error outcome and returns no
\* amortization result (payment, totals, schedule).
InvalidArgsRejected ==
    (/\ mortgage_args.principal <= 0 \/ mortgage_args.years <= 0
     /\ "pending" \notin DOMAIN mortgage) =>
        /\ "error" \in DOMAIN mortgage
        /\ DOMAIN mortgage \cap {"monthly_payment", "total_payment", "total_interest",
                                 "first_year_amortization"} = {}

\* ------------------------------------------ generate_budget_recommendation
\* recommended_ratios, in percent of income
recommended_ratios ==
    [housing |-> 28, transportation |-> 15, food |-> 12, utilities |-> 10,
     entertainment |-> 5, healthcare |-> 5, savings |-> 20]

\* recommended_ratios.get(category, 0.05)
RecommendedRatio(category) ==
    IF category \in DOMAIN recommended_ratios
    THEN Frac(recommended_ratios[category], 100)
    ELSE Frac(5, 100)

Greater(x, y) == x.num * y.den > y.num * x.den

\* a test that also flags a category exactly 20% over its recommended ratio
OverRecommendedOrEqual(actual_ratio, recommended_ratio) ==
    ~Greater(Times(recommended_ratio, Frac(12, 10)), actual_ratio)

\* actual_ratio > recommended_ratio * 1.2
OverRecommended(actual_ratio, recommended_ratio) ==
    Greater(actual_ratio, Times(recommended_ratio, Frac(12, 10)))

\* sum(expenses.values()); the dictionary is a sequence of entries in
\* insertion order
RECURSIVE Sum(_)
Sum(expenses) ==
    IF expenses = <<>> THEN 0 ELSE Head(expenses).amount + Sum(Tail(expenses))

\* the loop over expense_ratios, which is empty unless income > 0
RECURSIVE CategoryRecommendations(_, _)
CategoryRecommendations(expenses, income) ==
    IF expenses = <<>> \/ income <= 0 THEN <<>>
    ELSE LET category == Head(expenses).category
             actual_ratio == Frac(Head(expenses).amount, income)
         IN  (IF OverRecommended(actual_ratio, RecommendedRatio(category))
              THEN << [category |-> category,
                       action |-> "Consider reducing spending"] >>
              ELSE <<>>)
             \o CategoryRecommendations(Tail(expenses), income)

\* FinanceAgent.generate_budget_recommendation; `malformed` when an amount is
\* not a number, which makes the body raise (the formatted percentages, the
\* rounded ratios and the time stamp of the dictionary are left out)
GenerateBudgetRecommendation(income, expenses, malformed, ai) ==
    LET ai_advice == GenerateText(ai)
    IN  IF malformed \/ ai_advice.raised
        THEN [error |-> "str(e)"]
        ELSE LET total_expenses == Sum(expenses)
                 savings_rate == IF income > 0 THEN Frac(income - total_expenses, income)
                                 ELSE Whole(0)
                 low_savings == Greater(Frac(2, 10), savings_rate)
             IN  [income |-> income,
                  total_expenses |-> total_expenses,
                  savings_rate |-> savings_rate,
                  recommendations |->
                      CategoryRecommendations(expenses, income)
                      \o (IF low_savings
                          THEN << [category |-> "savings",
                                   action |-> "Increase savings rate"] >>
                          ELSE <<>>),
                  ai_advice |-> ai_advice.text,
                  budget_health |-> IF low_savings THEN "needs improvement" ELSE "good"]

\* expense amounts at and just over the 20% edge for an income of 1000, for a
\* category of the table with a large ratio, one with a small ratio and one
\* outside the table
Amounts ==
    [housing |-> {336, 337, 740}, food |-> {144, 145}, pets |-> {60, 61}]
ExpenseEntries ==
    UNION {{[category |-> c, amount |-> a] : a \in Amounts[c]} : c \in DOMAIN Amounts}
\* dictionaries of up to three entries, each category at most once
ExpenseDicts ==
    {<<>>} \cup {<<e>> : e \in ExpenseEntries}
    \cup {d \in ExpenseEntries \X ExpenseEntries : d[1].category # d[2].category}
    \cup {d \in ExpenseEntries \X ExpenseEntries \X ExpenseEntries :
              /\ d[1].category # d[2].category
              /\ d[3].category \notin {d[1].category, d[2].category}}
BudgetIncomes == {0 - 1000, 0, 1000}

InitBudget ==
    /\ SchedulerInit /\ DispatchIdle /\ InventoryIdle /\ RiskIdle /\ LoanIdle
    /\ MortgageIdle /\ InsuranceIdle
    /\ budget_args \in [income : BudgetIncomes, expenses : ExpenseDicts]
    /\ budget = NotAnalysed

\* the budget is analysed
Analyse ==
    /\ "pending" \in DOMAIN budget
    /\ \E malformed \in BOOLEAN, ai \in Inference :
          budget' = GenerateBudgetRecommendation(budget_args.income,
                                                 budget_args.expenses, malformed, ai)
    /\ UNCHANGED <<budget_args, schedulerVars, dispatchVars, inventoryVars,
                   riskVars, loanVars, mortgageVars, insuranceVars>>

NextBudget == Analyse

\* the budget engine alone, over the incomes and expenses above
SpecBudget == InitBudget /\ [][NextBudget]_vars

Analysed == "recommendations" \in DOMAIN budget

\* the reference ratio of a category, in percent
Reference(category) ==
    IF category \in DOMAIN recommended_ratios THEN recommended_ratios[category] ELSE 5

\* the share amount / income exceeds the reference by more than 20% of the
\* reference: (share - reference) / reference > 1/5
ExceedsByMoreThanFifth(e) ==
    /\ budget_args.income > 0
    /\ 5 * (100 * e.amount - Reference(e.category) * budget_args.income)
         > Reference(e.category) * budget_args.income

\* the savings rate (0 for income <= 0) is below 20%
SavingsBelowFifth ==
    IF budget_args.income > 0
    THEN 100 * (budget_args.income - Sum(budget_args.expenses))
             < 20 * budget_args.income
    ELSE TRUE

CategoriesOf(entries) == [k \in 1..Len(entries) |-> entries[k].category]
IsSavingsAdvice(r) == r.action = "Increase savings rate"
Flagged == SelectSeq(budget.recommendations, LAMBDA r : ~IsSavingsAdvice(r))

\* C25: a category is flagged iff its share of income exceeds its reference
\* ratio (5% outside the table) by more than 20% relative, the flagged
\* categories appear in input order, the result is 'needs improvement' iff the
\* savings rate is below 20%, and exactly then a savings recommendation is the
\* last entry (for income <= 0 the savings rate is 0 and nothing is flagged).
BudgetFlagsAndHealth ==
    Analysed =>
        /\ CategoriesOf(Flagged)
             = CategoriesOf(SelectSeq(budget_args.expenses, ExceedsByMoreThanFifth))
        /\ budget.budget_health \in {"good", "needs improvement"}
        /\ budget.budget_health = "needs improvement" <=> SavingsBelowFifth
        /\ SavingsBelowFifth <=>
               /\ budget.recommendations # <<>>
               /\ IsSavingsAdvice(budget.recommendations[Len(budget.recommendations)])
        /\ \A k \in 1..Len(budget.recommendations) :
               IsSavingsAdvice(budget.recommendations[k])
                   => k = Len(budget.recommendations)
        /\ budget_args.income <= 0 => Flagged = <<>>

\* pets and housing are flagged in the order given, food at exactly 20% over
\* is not, and low savings add the final recommendation
PetsHousingThenSavings ==
    /\ Analysed
    /\ CategoriesOf(budget_args.expenses) = <<"pets", "food", "housing">>
    /\ budget_args.expenses[2].amount = 144
    /\ CategoriesOf(budget.recommendations) = <<"pets", "housing", "savings">>
    /\ budget.budget_health = "needs improvement"

\* ------------------------------------------------------ create_policy_quote
\* base_rates, per thousand of the coverage amount
base_rates == [auto |-> 20, home |-> 5, life |-> 10, health |-> 80, business |-> 30]

\* base_rates.get(policy_type, 0.02)
BaseRate(policy_type) ==
    IF policy_type \in DOMAIN base_rates THEN Frac(base_rates[policy_type], 1000)
    ELSE Frac(20, 1000)

\* policy_data['policy_type'].lower(), for the spellings tried
Lower(policy_type) == IF policy_type = "Auto" THEN "auto" ELSE policy_type

\* one rule that fired: what it adds to risk_multiplier, in hundredths, and the
\* risk factor it records
Penalty(hundredths, factor) == << [added |-> hundredths, factor |-> factor] >>

AutoRules(policy_data) ==
    LET age == Get(policy_data, "age", 30)
        driving_record == Get(policy_data, "driving_record", "clean")
    IN  (IF age < 25 THEN Penalty(50, "Young driver")
         ELSE IF age > 65 THEN Penalty(20, "Senior driver")
         ELSE <<>>)
        \o (IF driving_record = "violations" THEN Penalty(30, "Traffic violations")
            ELSE IF driving_record = "accidents" THEN Penalty(40, "Previous accidents")
            ELSE <<>>)

HomeRules(policy_data) ==
    LET home_age == Get(policy_data, "home_age", 10)
        location_risk == Get(policy_data, "location_risk", "low")
    IN  (IF home_age > 30 THEN Penalty(10, "Older property") ELSE <<>>)
        \o (IF location_risk = "high" THEN Penalty(30, "High-risk location")
            ELSE IF location_risk = "medium" THEN Penalty(10, "Moderate-risk location")
            ELSE <<>>)

\* life rules with the same age penalty for every age above 50
LifeRulesFlatAge(policy_data) ==
    LET age == Get(policy_data, "age", 30)
        health_status == Get(policy_data, "health_status", "good")
    IN  (IF age > 50 THEN Penalty(2, "Age factor") ELSE <<>>)
        \o (IF health_status = "poor" THEN Penalty(50, "Health concerns")
            ELSE IF health_status = "fair" THEN Penalty(20, "Moderate health")
            ELSE <<>>)

LifeRules(policy_data) ==
    LET age == Get(policy_data, "age", 30)
        health_status == Get(policy_data, "health_status", "good")
    IN  (IF age > 50 THEN Penalty((age - 50) * 2, "Age factor") ELSE <<>>)
        \o (IF health_status = "poor" THEN Penalty(50, "Health concerns")
            ELSE IF health_status = "fair" THEN Penalty(20, "Moderate health")
            ELSE <<>>)

RECURSIVE Added(_)
Added(penalties) ==
    IF penalties = <<>> THEN 0 ELSE Head(penalties).added + Added(Tail(penalties))

\* InsuranceAgent.create_policy_quote (coverage in currency units, premiums in
\* cents, risk_multiplier in hundredths); a missing 'policy_type' or
\* 'coverage_amount' raises KeyError, which gives the error dictionary (the
\* quote id and the time stamps of the dictionary are left out)
CreatePolicyQuote(policy_data, ai) ==
    LET recommendation == GenerateText(ai)
    IN  IF ~({"policy_type", "coverage_amount"} \subseteq DOMAIN policy_data)
           \/ recommendation.raised
        THEN [error |-> "str(e)"]
        ELSE LET policy_type == Lower(policy_data.policy_type)
                 coverage_amount == policy_data.coverage_amount
                 base_premium == Times(Whole(coverage_amount), BaseRate(policy_type))
                 penalties == IF policy_type = "auto" THEN AutoRules(policy_data)
                              ELSE IF policy_type = "home" THEN HomeRules(policy_data)
                              ELSE IF policy_type = "life" THEN LifeRules(policy_data)
                              ELSE <<>>
                 risk_multiplier == Frac(100 + Added(penalties), 100)
                 annual_premium == Times(base_premium, risk_multiplier)
                 monthly_premium == Over(annual_premium, Whole(12))
             IN  [policy_type |-> policy_type,
                  coverage_amount |-> coverage_amount,
                  annual_premium |-> Round2(annual_premium),
                  monthly_premium |-> Round2(monthly_premium),
                  risk_multiplier |-> Round2(risk_multiplier),
                  risk_factors |-> [k \in 1..Len(penalties) |-> penalties[k].factor],
                  ai_recommendation |-> recommendation.text]

\* policy_data dictionaries: every band of every rule, keys left out, a type
\* without rules, a type outside base_rates and one without the coverage
Coverages == {1000, 25000}
Customers ==
    [policy_type : {"auto", "Auto"}, coverage_amount : Coverages,
     age : {24, 25, 65, 66}, driving_record : {"clean", "violations", "accidents"}]
    \cup [policy_type : {"home"}, coverage_amount : Coverages,
          home_age : {30, 31}, location_risk : {"low", "medium", "high"}]
    \cup [policy_type : {"life"}, coverage_amount : Coverages,
          age : {50, 51, 60}, health_status : {"good", "fair", "poor"}]
    \cup [policy_type : {"auto", "home", "life", "business", "pet"},
          coverage_amount : Coverages]
    \cup {[policy_type |-> "auto"]}

InitInsurance ==
    /\ SchedulerInit /\ DispatchIdle /\ InventoryIdle /\ RiskIdle /\ LoanIdle
    /\ MortgageIdle /\ BudgetIdle
    /\ quote_args \in Customers
    /\ quote = NotQuoted

\* the policy is quoted
Quote ==
    /\ "pending" \in DOMAIN quote
    /\ \E ai \in Inference : quote' = CreatePolicyQuote(quote_args, ai)
    /\ UNCHANGED <<quote_args, schedulerVars, dispatchVars, inventoryVars,
                   riskVars, loanVars, mortgageVars, budgetVars>>

NextInsurance == Quote

\* the insurance engine alone, over the customers above
SpecInsurance == InitInsurance /\ [][NextInsurance]_vars

Quoted == "annual_premium" \in DOMAIN quote

\* the annual premium is coverage amount x base rate of the type x the reported
\* multiplier, to the cent
PremiumIsProduct ==
    quote.annual_premium
        = Round2(Times(Times(Whole(quote.coverage_amount), BaseRate(quote.policy_type)),
                       Frac(quote.risk_multiplier, 100)))

\* the multiplier is never below 1.0 and is 1.0 exactly when no factor was
\* recorded
MultiplierAtLeastOne ==
    /\ quote.risk_multiplier >= 100
    /\ quote.risk_multiplier = 100 <=> quote.risk_factors = <<>>

\* the fixed penalty behind each recorded risk factor, in hundredths
FixedPenalty ==
    [f \in {"Young driver", "Health concerns"} |-> 50]
    @@ [f \in {"Previous accidents"} |-> 40]
    @@ [f \in {"Traffic violations", "High-risk location"} |-> 30]
    @@ [f \in {"Senior driver", "Moderate health"} |-> 20]
    @@ [f \in {"Older property", "Moderate-risk location"} |-> 10]

\* the penalty of the life age rule, which grows with the age
AgePenalty == (Get(quote_args, "age", 30) - 50) * 2

RECURSIVE PenaltiesOf(_)
PenaltiesOf(factors) ==
    IF factors = <<>> THEN 0
    ELSE (IF Head(factors) = "Age factor" THEN AgePenalty
          ELSE FixedPenalty[Head(factors)])
         + PenaltiesOf(Tail(factors))

\* the same policy type and the same recorded factors give the same multiplier
SameFactorsSameMultiplier ==
    \A other \in Customers :
        LET q == CreatePolicyQuote(other, "not loaded")
        IN  (/\ "risk_factors" \in DOMAIN q
             /\ q.policy_type = quote.policy_type
             /\ q.risk_factors = quote.risk_factors)
                => q.risk_multiplier = quote.risk_multiplier

\* C26 (as claimed): the annual premium is coverage amount x base rate x risk
\* multiplier; the multiplier starts at 1.0 and only accumulates fixed
\* penalties, one for each recorded risk factor, so the policy type and the
\* recorded factors fix it; it is never below 1.0 and is 1.0 when no rule fired.
MultiplierOfFixedPenalties ==
    Quoted => PremiumIsProduct /\ MultiplierAtLeastOne /\ SameFactorsSameMultiplier

\* C26 (amended): the annual premium is coverage amount x base rate x risk
\* multiplier; the multiplier is 1.0 plus one penalty for each recorded risk
\* factor, a fixed one except for the life age factor, which adds 0.02 for
\* each year of age above 50; it is never below 1.0 and is 1.0 when no rule
\* fired.
MultiplierOfFixedAndAgePenalties ==
    Quoted =>
        /\ PremiumIsProduct
        /\ MultiplierAtLeastOne
        /\ quote.risk_multiplier = 100 + PenaltiesOf(quote.risk_factors)

\* a life policy at age 60 in poor health: two factors, multiplier 1.70
LifeAtSixtyQuoted ==
    /\ Quoted
    /\ quote.policy_type = "life"
    /\ quote.risk_factors = <<"Age factor", "Health concerns">>
    /\ quote.risk_multiplier = 170
    /\ quote.coverage_amount = 25000 /\ quote.annual_premium = 42500

\* ------------------------------------------------- the loop of _run_scheduler
\* the background threads get processor time: a thread that can evaluate
\* `while self.running` and call run_pending() does so, and a job function
\* that was called returns or raises
SpecTick ==
    Spec /\ \A t \in Threads : WF_vars(RunPending(t)) /\ WF_vars(EndJob(t))

\* the jobs the start() calls followed can register
MaxJobs == MaxCalls * Len(StaticTable)

Due(o, i) ==
    /\ running[o]
    /\ i <= Len(jobs)
    /\ jobs[i].self = o
    /\ ShouldRun(jobs[i], now)

\* C28: as long as the scheduler stays Running its background loop is there
\* and ticking, whatever the jobs do, and every job whose next-due time has
\* elapsed is eventually executed.
RunningKeepsTicking ==
    \A o \in Coordinators :
        /\ running[o] ~> (~running[o] \/ AliveOf(o) # {})
        /\ \A i \in 1..MaxJobs : Due(o, i) ~> (~running[o] \/ InFlight(i) # {})

\* ------------------------------------- update_inventory, one call at a time
\* process_command('update_inventory', ..) -> InventoryAgent.update_quantity
\* with no other call in between: the SELECT finds the item or not, a change
\* below zero is refused, otherwise the UPDATE writes current_quantity +
\* quantity_change; a refusal returns False, which process_command wraps as
\* the 'result' like the False of a caught exception.  Quantities above
\* MaxQuantity + MaxChange are not followed.
UpdateInventory(c) ==
    /\ \A d \in Callers : update[d].pc # "update"
    /\ \E item_id \in ItemIds, quantity_change \in (0 - MaxChange)..MaxChange :
          LET found == item_id = Item
              new_quantity == quantity + quantity_change
              refused == ~found \/ new_quantity < 0
              r == Dispatch("update_inventory", {"item_id", "quantity_change"}, refused)
          IN  /\ new_quantity <= MaxQuantity + MaxChange
              /\ quantity' = IF refused THEN quantity ELSE new_quantity
              /\ update' = [update EXCEPT ![c] =
                      [pc |-> "done", item_id |-> item_id,
                       quantity_change |-> quantity_change,
                       current_quantity |-> IF found THEN quantity ELSE 0,
                       returned |-> IF refused THEN "False" ELSE "True"]]
              /\ command' = "update_inventory"
              /\ params' = {"item_id", "quantity_change"}
              /\ invoked' = r.invoked
              /\ failed' = r.failed
              /\ envelope' = r.envelope
    /\ UNCHANGED <<initial_quantity, schedulerVars, riskVars, loanVars, mortgageVars,
                   budgetVars, insuranceVars>>

NextInventorySequential == \E c \in Callers : UpdateInventory(c)

\* update_inventory commands on one item, one after the other
SpecInventorySequential == InitInventory /\ [][NextInventorySequential]_vars

\* the update_inventory command this step processed
Updated(c) == update'[c] # update[c]
WouldBeRefused(c) ==
    \/ update'[c].item_id # Item
    \/ quantity + update'[c].quantity_change < 0

\* C29: under sequential update_inventory commands the quantity of an item
\* stays >= 0: an update that would make it negative, or that names an unknown
\* item, leaves the stored quantity unchanged and is reported to the caller
\* as an error with a reason; an accepted update changes the quantity by
\* exactly quantity_change.
SequentialUpdatesChecked ==
    /\ [](quantity >= 0)
    /\ [][\A c \in Callers : Updated(c) =>
              IF WouldBeRefused(c)
              THEN /\ quantity' = quantity
                   /\ "error" \in DOMAIN envelope'
                   /\ "result" \notin DOMAIN envelope'
              ELSE /\ quantity' = quantity + update'[c].quantity_change
                   /\ "error" \notin DOMAIN envelope']_vars
====
